---- MODULE Spec2Model ----
(***************************************************************************)
(* State machine of src/index.tsx: the two-tab image generator/combiner.   *)
(* One action per event handler or resumption of an awaited call.  A       *)
(* handler runs to its next await without interleaving (the browser's      *)
(* event loop is single threaded), so each action is the whole synchronous *)
(* stretch of code between two awaits.                                     *)
(***************************************************************************)
EXTENDS Integers, Sequences, FiniteSets, TLC

\* ------------------------------------------------------------------ bounds
MaxSlots == 2        \* upload areas that may exist
MaxParts == 2        \* parts of the first candidate of a combine response
MaxImages == 2       \* generatedImages of a generate response
MaxProcs == 2        \* performGeneration invocations suspended at once

\* ------------------------------------------------------------ value spaces
\* A sequence of at most n elements of S.
SeqUpTo(S, n) == UNION {[1..k -> S] : k \in 0..n}

\* An optional value: <<>> is null/undefined, <<x>> is x.
Null == <<>>
Some(x) == <<x>>

\* Texts typed into a prompt field, as sequences of characters: empty,
\* whitespace only, and a word with whitespace around it.
PromptTexts == {<<>>, <<" ", " ">>, <<" ", "a", " ">>}

\* Files the user can pick or drop: declared type and content.
Files == {[type |-> "image/png", bytes |-> "AAAA"],
          [type |-> "image/webp", bytes |-> "BBBB"]}

\* Image bytes the remote service can answer with.
RemoteBytes == {"XXXX", "YYYY"}

\* ---------------------------------------------------------------- messages
\* Texts are sequences of fragments; a fragment is a phrase the code looks
\* for, or other text.
MsgDialogUnavailable == <<"La seleccion de clave de API no esta disponible. Por favor, configura la variable de entorno API_KEY.">>
MsgNoKey == <<"Clave de API no configurada. Por favor, anade tu clave de API.">>
MsgNeedGeneratePrompt == <<"Por favor, introduce un prompt para generar una imagen.">>
MsgNeedTwoImages == <<"Por favor, sube al menos dos imagenes para combinar.">>
MsgNeedCombinePrompt == <<"Por favor, describe como combinar las imagenes.">>
MsgGenerating == <<"Generando imagen...">>
MsgCombining == <<"Combinando imagenes...">>
MsgSuccess == <<"Imagen generada con exito.">>
MsgNoImages == <<"No se generaron imagenes. El prompt puede haber sido bloqueado.">>
MsgNoCombined == <<"No se pudo generar una imagen combinada. Intenta con un prompt diferente.">>
MsgUnknown == <<"Ocurrio un error desconocido.">>
MsgModelNotFound == <<"Modelo no encontrado. Esto puede ser causado por una clave de API invalida o problemas de permisos. Por favor, verifica tu clave de API.">>
MsgKeyInvalid == <<"Tu clave de API es invalida. Por favor, anade una clave de API valida.">>
ErrorPrefix == "Error: "

\* statusEl content: innerText (plain) or the red span of showStatusError.
PlainStatus(message) == [kind |-> "text", message |-> message]
ErrorStatus(message) == [kind |-> "error", message |-> message]

\* ---------------------------------------------------------- pure functions
\* String.prototype.trim on a sequence of characters.
RECURSIVE TrimStart(_)
TrimStart(s) ==
  IF s # <<>> /\ Head(s) = " " THEN TrimStart(Tail(s)) ELSE s

RECURSIVE TrimEnd(_)
TrimEnd(s) ==
  IF s # <<>> /\ s[Len(s)] = " " THEN TrimEnd(SubSeq(s, 1, Len(s) - 1)) ELSE s

\* Mutant of Trim: the text is used as typed.
Trim_None(s) == s

Trim(s) == TrimEnd(TrimStart(s))

\* FileReader.readAsDataURL: "data:<type>;base64,<content>" as fragments,
\* the comma being a fragment of its own.
ReadAsDataURL(file) == <<"data:", file.type, ";base64", ",", file.bytes>>

\* String.prototype.split: the pieces between occurrences of sep.
RECURSIVE Split(_, _)
Split(s, sep) ==
  IF \E i \in 1..Len(s) : s[i] = sep
  THEN LET i == CHOOSE k \in 1..Len(s) :
                  s[k] = sep /\ \A j \in 1..(k - 1) : s[j] # sep
       IN  <<SubSeq(s, 1, i - 1)>> \o Split(SubSeq(s, i + 1, Len(s)), sep)
  ELSE <<s>>

\* fileToBase64's onload: {base64: result.split(',')[1], mimeType: file.type}.
fileToBase64(file) ==
  [base64 |-> Split(ReadAsDataURL(file), ",")[2], mimeType |-> file.type]

\* The template `data:${mimeType};base64,${base64}`.
DataUrl(mimeType, base64) == <<"data:", mimeType, ";base64", ",">> \o base64

\* images.filter((img) => img !== null), unwrapped to ImageData[].
RECURSIVE FilterNonNull(_)
FilterNonNull(list) ==
  IF list = <<>> THEN <<>>
  ELSE IF Head(list) # Null
       THEN <<Head(list)[1]>> \o FilterNonNull(Tail(list))
       ELSE FilterNonNull(Tail(list))

\* Mutant of ImageParts: the parts come out in reverse order.
RECURSIVE ImageParts_Reversed(_)
ImageParts_Reversed(imageList) ==
  IF imageList = <<>> THEN <<>>
  ELSE ImageParts_Reversed(Tail(imageList))
       \o <<[inlineData |-> Some([mimeType |-> Head(imageList).mimeType,
                                  data |-> Head(imageList).base64]),
             text |-> Null]>>

\* combineImages' request: one inlineData part per image, then the text part.
RECURSIVE ImageParts(_)
ImageParts(imageList) ==
  IF imageList = <<>> THEN <<>>
  ELSE <<[inlineData |-> Some([mimeType |-> Head(imageList).mimeType,
                               data |-> Head(imageList).base64]),
          text |-> Null]>> \o ImageParts(Tail(imageList))

TextPart(prompt) == [inlineData |-> Null, text |-> Some(prompt)]

CombineRequestParts(prompt, imageList) ==
  ImageParts(imageList) \o <<TextPart(prompt)>>

\* Mutant of FirstInlineData: the loop has no break, the last part with
\* inlineData wins.
FirstInlineData_Last(parts) ==
  LET bearing == {k \in 1..Len(parts) : parts[k].inlineData # Null} IN
  IF bearing = {} THEN Null
  ELSE parts[CHOOSE k \in bearing : \A j \in bearing : j <= k].inlineData

\* The for loop of combineImages: the first part with inlineData, or null.
RECURSIVE FirstInlineData(_)
FirstInlineData(parts) ==
  IF parts = <<>> THEN Null
  ELSE IF Head(parts).inlineData # Null
       THEN Head(parts).inlineData
       ELSE FirstInlineData(Tail(parts))

\* Phrases the catch block of performGeneration looks for.
PhraseNotFound == "Requested entity was not found."
PhraseKeyInvalid == "API_KEY_INVALID"
PhraseKeyNotValid == "API key not valid"
PhrasePermissionDenied == "permission denied"

\* Fragments a rejection message is made of: the phrases, case variants of
\* them, and unrelated text.
FragmentList == <<PhraseNotFound, PhraseKeyInvalid, PhraseKeyNotValid,
                  PhrasePermissionDenied, "Permission Denied", "quota exceeded">>
Fragments == {FragmentList[k] : k \in DOMAIN FragmentList}

\* String.prototype.includes on fragments.
Includes(message, phrase) == \E i \in 1..Len(message) : message[i] = phrase

\* String.prototype.toLowerCase, fragment by fragment.
LowerFragment(f) ==
  CASE f = PhraseNotFound -> "requested entity was not found."
    [] f = PhraseKeyInvalid -> "api_key_invalid"
    [] f = PhraseKeyNotValid -> "api key not valid"
    [] f = "Permission Denied" -> "permission denied"
    [] OTHER -> f

ToLowerCase(message) == [i \in 1..Len(message) |-> LowerFragment(message[i])]

\* e instanceof Error ? e.message : 'Ocurrio un error desconocido.'
ErrorMessageOf(e) == IF e.isError THEN e.message ELSE MsgUnknown

\* Mutant of Classify: "API key not valid" is not looked for.
Classify_NoKeyNotValid(errorMessage) ==
  IF Includes(errorMessage, PhraseNotFound)
  THEN [userFriendlyMessage |-> MsgModelNotFound, shouldOpenDialog |-> TRUE]
  ELSE IF \/ Includes(errorMessage, PhraseKeyInvalid)
          \/ Includes(ToLowerCase(errorMessage), PhrasePermissionDenied)
       THEN [userFriendlyMessage |-> MsgKeyInvalid, shouldOpenDialog |-> TRUE]
       ELSE [userFriendlyMessage |-> <<ErrorPrefix>> \o errorMessage,
             shouldOpenDialog |-> FALSE]

\* Mutant of Classify: "permission denied" is looked for without lowering
\* the case of the message.
Classify_CaseSensitive(errorMessage) ==
  IF Includes(errorMessage, PhraseNotFound)
  THEN [userFriendlyMessage |-> MsgModelNotFound, shouldOpenDialog |-> TRUE]
  ELSE IF \/ Includes(errorMessage, PhraseKeyInvalid)
          \/ Includes(errorMessage, PhraseKeyNotValid)
          \/ Includes(errorMessage, PhrasePermissionDenied)
       THEN [userFriendlyMessage |-> MsgKeyInvalid, shouldOpenDialog |-> TRUE]
       ELSE [userFriendlyMessage |-> <<ErrorPrefix>> \o errorMessage,
             shouldOpenDialog |-> FALSE]

\* The classification of the catch block: the message shown and whether the
\* key-selection dialog is opened.
Classify(errorMessage) ==
  IF Includes(errorMessage, PhraseNotFound)
  THEN [userFriendlyMessage |-> MsgModelNotFound, shouldOpenDialog |-> TRUE]
  ELSE IF \/ Includes(errorMessage, PhraseKeyInvalid)
          \/ Includes(errorMessage, PhraseKeyNotValid)
          \/ Includes(ToLowerCase(errorMessage), PhrasePermissionDenied)
       THEN [userFriendlyMessage |-> MsgKeyInvalid, shouldOpenDialog |-> TRUE]
       ELSE [userFriendlyMessage |-> <<ErrorPrefix>> \o errorMessage,
             shouldOpenDialog |-> FALSE]

\* ------------------------------------------------- what the remote answers
\* Rejection messages: one fragment, or two different fragments, the one
\* looked for later standing first.  A remote call rejects with an Error
\* carrying such a message, or with a non-Error value.
Messages ==
  {<<f>> : f \in Fragments}
  \cup {<<FragmentList[q[2]], FragmentList[q[1]]>> :
          q \in {r \in (DOMAIN FragmentList) \X (DOMAIN FragmentList) :
                  r[1] < r[2]}}

Rejections ==
  {[isError |-> TRUE, message |-> m] : m \in Messages}
  \cup {[isError |-> FALSE, message |-> <<>>]}

\* generateImages' response: generatedImages undefined, or a list of images.
GenerateResponses ==
  {[generatedImages |-> Null]}
  \cup {[generatedImages |-> Some(l)] :
          l \in SeqUpTo({<<b>> : b \in RemoteBytes}, MaxImages)}

\* Parts of a response candidate: text, or inline image data.
ResponseParts ==
  {TextPart(<<"t">>)}
  \cup {[inlineData |-> Some([mimeType |-> "image/png", data |-> <<"XXXX">>]),
         text |-> Null],
        [inlineData |-> Some([mimeType |-> "image/jpeg", data |-> <<"YYYY">>]),
         text |-> Null]}

\* generateContent's response: no candidate, or one candidate with its parts.
CombineResponses ==
  {[candidates |-> <<>>]}
  \cup {[candidates |-> <<p>>] : p \in SeqUpTo(ResponseParts, MaxParts)}

\* The TypeError of reading .content of an undefined candidate.
TypeErrorNoCandidate ==
  [isError |-> TRUE, message |-> <<"Cannot read properties of undefined">>]

\* ------------------------------------------------------------------- state
VARIABLES
  apiKey,          \* process.env.API_KEY is set (TRUE) or absent (FALSE)
  hostDialog,      \* window.aistudio?.openSelectKey exists
  activeTab,       \* 'generate' | 'combine'
  view,            \* tab classes, panel display, primary button label
  images,          \* (ImageData | null)[]
  areas,           \* the .image-upload-area elements, one per slot
  decodes,         \* fileToBase64 reads not yet settled: {index, file}
  controls,        \* disabled flags of the four guarded controls
  promptGenerate,  \* promptGenerateEl.value
  promptCombine,   \* promptCombineEl.value
  outputImage,     \* outputImage.src and style.display
  downloadButton,  \* downloadButton.style.display
  status,          \* statusEl content
  procs,           \* performGeneration invocations suspended at an await
  uncaught         \* the performGeneration that returned last rejected, with
                   \* nobody to catch it

vars == <<apiKey, hostDialog, activeTab, view, images, areas, decodes, controls,
          promptGenerate, promptCombine, outputImage, downloadButton, status,
          procs, uncaught>>

\* ------------------------------------------------------------------ helpers
\* list without its i-th element.
RemoveAt(list, i) == SubSeq(list, 1, i - 1) \o SubSeq(list, i + 1, Len(list))

\* An upload area as the markup creates it: placeholder shown, preview
\* hidden, pointer interaction on.
FreshArea ==
  [pointerEvents |-> "auto", placeholderDisplay |-> "", previewDisplay |-> "",
   previewSrc |-> <<>>]

\* What switchTab leaves on the page for a tab.
TabView(tab) ==
  IF tab = "generate"
  THEN [tabGenerate |-> "active", tabCombine |-> "inactive",
        panelGenerate |-> "block", panelCombine |-> "none",
        buttonText |-> "Generar"]
  ELSE [tabGenerate |-> "inactive", tabCombine |-> "active",
        panelGenerate |-> "none", panelCombine |-> "block",
        buttonText |-> "Combinar"]

\* A performGeneration invocation suspended at an await:
\*   pc = "keyDialog"  at `await openApiKeyDialog()` of the missing-key exit,
\*   pc = "remote"     at `await generateImage/combineImages`,
\*   pc = "errDialog"  at `await openApiKeyDialog()` of the catch block.
\* op, prompt and parts are what the remote call was made with.
Proc(pc, op, prompt, parts) ==
  [pc |-> pc, op |-> op, prompt |-> prompt, parts |-> parts]

RemoteCalls == {i \in DOMAIN procs : procs[i].pc = "remote"}

\* ------------------------------------------------------------------- Init
\* The page as its markup presents it before any script runs: the generate
\* view, no output image, no download control, an empty status.
PageMarkup ==
  [view |-> TabView("generate"),
   outputImage |-> [src |-> <<>>, display |-> "none"],
   downloadButton |-> "none",
   status |-> PlainStatus(<<>>)]

Init ==
  /\ apiKey \in BOOLEAN
  /\ hostDialog \in BOOLEAN
  /\ activeTab = "generate"
  /\ view = PageMarkup.view
  /\ \E n \in 0..MaxSlots :
       /\ images = [i \in 1..n |-> Null]
       /\ areas = [i \in 1..n |-> FreshArea]
  /\ decodes = {}
  /\ controls = [generateButton |-> FALSE, promptGenerate |-> FALSE,
                 promptCombine |-> FALSE, addImage |-> FALSE]
  /\ promptGenerate = <<>>
  /\ promptCombine = <<>>
  /\ outputImage = PageMarkup.outputImage
  /\ downloadButton = PageMarkup.downloadButton
  /\ status = PageMarkup.status
  /\ procs = <<>>
  /\ uncaught = FALSE

\* ---------------------------------------------------------------- actions
\* Mutant of switchTab: the prompt fields are cleared on a switch.
switchTab_ClearsPrompts(tab) ==
  /\ activeTab' = tab
  /\ view' = TabView(tab)
  /\ promptGenerate' = <<>>
  /\ promptCombine' = <<>>
  /\ UNCHANGED <<apiKey, hostDialog, images, areas, decodes, controls,
                 outputImage, downloadButton, status, procs, uncaught>>

\* switchTab(tab), from a click on either tab control.
switchTab(tab) ==
  /\ activeTab' = tab
  /\ view' = TabView(tab)
  /\ UNCHANGED <<apiKey, hostDialog, images, areas, decodes, controls,
                 promptGenerate, promptCombine, outputImage, downloadButton,
                 status, procs, uncaught>>

\* The click listener of addImageButton: a new area and a null slot.
addImage ==
  /\ ~controls.addImage
  /\ Len(images) < MaxSlots
  /\ areas' = Append(areas, FreshArea)
  /\ images' = Append(images, Null)
  /\ UNCHANGED <<apiKey, hostDialog, activeTab, view, decodes, controls,
                 promptGenerate, promptCombine, outputImage, downloadButton,
                 status, procs, uncaught>>

\* The user edits a prompt field (an enabled textarea).
inputPromptGenerate(text) ==
  /\ ~controls.promptGenerate
  /\ promptGenerate' = text
  /\ UNCHANGED <<apiKey, hostDialog, activeTab, view, images, areas, decodes,
                 controls, promptCombine, outputImage, downloadButton, status,
                 procs, uncaught>>

inputPromptCombine(text) ==
  /\ ~controls.promptCombine
  /\ promptCombine' = text
  /\ UNCHANGED <<apiKey, hostDialog, activeTab, view, images, areas, decodes,
                 controls, promptGenerate, outputImage, downloadButton, status,
                 procs, uncaught>>

\* The change and drop listeners of area index, up to `await fileToBase64`:
\* a read of the file starts.  The area takes the event only while its
\* pointer interaction is on.  A file is being read by one listener at a time.
uploadFile(index, file) ==
  /\ index \in DOMAIN areas
  /\ areas[index].pointerEvents = "auto"
  /\ \A d \in decodes : d.file # file
  /\ decodes' = decodes \cup {[index |-> index, file |-> file]}
  /\ UNCHANGED <<apiKey, hostDialog, activeTab, view, images, areas, controls,
                 promptGenerate, promptCombine, outputImage, downloadButton,
                 status, procs, uncaught>>

\* Mutant of onImageLoaded: a preview already shown is not replaced.
onImageLoaded_KeepsPreview(d) ==
  LET imageData == fileToBase64(d.file) IN
  /\ d \in decodes
  /\ decodes' = decodes \ {d}
  /\ images' = [images EXCEPT ![d.index] = Some(imageData)]
  /\ areas' = IF areas[d.index].previewDisplay = "block"
              THEN areas
              ELSE [areas EXCEPT ![d.index] =
                      [@ EXCEPT !.previewSrc =
                                  DataUrl(imageData.mimeType, imageData.base64),
                                !.placeholderDisplay = "none",
                                !.previewDisplay = "block"]]
  /\ UNCHANGED <<apiKey, hostDialog, activeTab, view, controls, promptGenerate,
                 promptCombine, outputImage, downloadButton, status, procs,
                 uncaught>>

\* The listeners resumed after fileToBase64 resolved: onImageLoaded stores
\* the image at the area's index, then the preview replaces the placeholder.
onImageLoaded(d) ==
  LET imageData == fileToBase64(d.file) IN
  /\ d \in decodes
  /\ decodes' = decodes \ {d}
  /\ images' = [images EXCEPT ![d.index] = Some(imageData)]
  /\ areas' = [areas EXCEPT ![d.index] =
                 [@ EXCEPT !.previewSrc =
                             DataUrl(imageData.mimeType, imageData.base64),
                           !.placeholderDisplay = "none",
                           !.previewDisplay = "block"]]
  /\ UNCHANGED <<apiKey, hostDialog, activeTab, view, controls, promptGenerate,
                 promptCombine, outputImage, downloadButton, status, procs,
                 uncaught>>

\* Mutant of onReadError: a failed read empties the slot.
onReadError_ClearsSlot(d) ==
  /\ d \in decodes
  /\ decodes' = decodes \ {d}
  /\ images' = [images EXCEPT ![d.index] = Null]
  /\ UNCHANGED <<apiKey, hostDialog, activeTab, view, areas, controls,
                 promptGenerate, promptCombine, outputImage, downloadButton,
                 status, procs, uncaught>>

\* reader.onerror: fileToBase64 rejects and the listener ends there.
onReadError(d) ==
  /\ d \in decodes
  /\ decodes' = decodes \ {d}
  /\ UNCHANGED <<apiKey, hostDialog, activeTab, view, images, areas, controls,
                 promptGenerate, promptCombine, outputImage, downloadButton,
                 status, procs, uncaught>>

\* showStatusError(message): the red span in statusEl.
showStatusError(message) == ErrorStatus(message)

\* Mutants of setControlsDisabled: the primary button is left enabled; the
\* upload areas are left alone.
setControlsDisabled_ButtonStaysOn(disabled) ==
  /\ controls' = [generateButton |-> FALSE, promptGenerate |-> disabled,
                  promptCombine |-> disabled, addImage |-> disabled]
  /\ areas' = [i \in DOMAIN areas |->
                 [areas[i] EXCEPT
                    !.pointerEvents = IF disabled THEN "none" ELSE "auto"]]

setControlsDisabled_AreasUntouched(disabled) ==
  /\ controls' = [generateButton |-> disabled, promptGenerate |-> disabled,
                  promptCombine |-> disabled, addImage |-> disabled]
  /\ areas' = areas

\* setControlsDisabled(disabled): the four controls, and pointer events of
\* every upload area that exists at the call.
setControlsDisabled(disabled) ==
  /\ controls' = [generateButton |-> disabled, promptGenerate |-> disabled,
                  promptCombine |-> disabled, addImage |-> disabled]
  /\ areas' = [i \in DOMAIN areas |->
                 [areas[i] EXCEPT
                    !.pointerEvents = IF disabled THEN "none" ELSE "auto"]]

\* Mutant of openApiKeyDialog: no fallback message without a host dialog.
openApiKeyDialog_NoFallback(shown) ==
  [status |-> shown, suspended |-> hostDialog]

\* openApiKeyDialog() called with `shown` in statusEl: with a host dialog the
\* caller is suspended on openSelectKey(); without one the fallback message
\* replaces the status and the caller goes on at once.
openApiKeyDialog(shown) ==
  IF hostDialog
  THEN [status |-> shown, suspended |-> TRUE]
  ELSE [status |-> showStatusError(MsgDialogUnavailable), suspended |-> FALSE]

\* Mutant of Validation: in combine mode the prompt is checked before the
\* number of images.
Validation_PromptFirst ==
  IF activeTab = "generate"
  THEN LET prompt == Trim(promptGenerate) IN
       IF prompt = <<>>
       THEN [stop |-> TRUE, prompt |-> prompt,
             status |-> showStatusError(MsgNeedGeneratePrompt)]
       ELSE [stop |-> FALSE, prompt |-> prompt,
             status |-> PlainStatus(MsgGenerating)]
  ELSE LET prompt == Trim(promptCombine)
           validImages == FilterNonNull(images)
       IN  IF prompt = <<>>
           THEN [stop |-> TRUE, prompt |-> prompt,
                 status |-> showStatusError(MsgNeedCombinePrompt)]
           ELSE IF Len(validImages) < 2
                THEN [stop |-> TRUE, prompt |-> prompt,
                      status |-> showStatusError(MsgNeedTwoImages)]
                ELSE [stop |-> FALSE, prompt |-> prompt,
                      status |-> PlainStatus(MsgCombining)]

\* The mode branch of performGeneration: the trimmed prompt, and either the
\* validation message it stops with or the progress text.
Validation ==
  IF activeTab = "generate"
  THEN LET prompt == Trim(promptGenerate) IN
       IF prompt = <<>>
       THEN [stop |-> TRUE, prompt |-> prompt,
             status |-> showStatusError(MsgNeedGeneratePrompt)]
       ELSE [stop |-> FALSE, prompt |-> prompt,
             status |-> PlainStatus(MsgGenerating)]
  ELSE LET prompt == Trim(promptCombine)
           validImages == FilterNonNull(images)
       IN  IF Len(validImages) < 2
           THEN [stop |-> TRUE, prompt |-> prompt,
                 status |-> showStatusError(MsgNeedTwoImages)]
           ELSE IF prompt = <<>>
                THEN [stop |-> TRUE, prompt |-> prompt,
                      status |-> showStatusError(MsgNeedCombinePrompt)]
                ELSE [stop |-> FALSE, prompt |-> prompt,
                      status |-> PlainStatus(MsgCombining)]

\* Mutant of RemoteCall: the generate operation is called in either mode.
RemoteCall_AlwaysGenerate(prompt) ==
  Proc("remote", "generate", prompt, <<>>)

\* The remote call the try block makes for the active tab.
RemoteCall(prompt) ==
  IF activeTab = "generate"
  THEN Proc("remote", "generate", prompt, <<>>)
  ELSE Proc("remote", "combine", prompt,
            CombineRequestParts(prompt, FilterNonNull(images)))

\* Mutant of performGeneration: the previous output is not hidden before
\* the call.
performGeneration_NoHide ==
  /\ ~controls.generateButton
  /\ Len(procs) < MaxProcs
  /\ IF ~apiKey
     THEN LET d == openApiKeyDialog(showStatusError(MsgNoKey)) IN
          /\ status' = d.status
          /\ procs' = IF d.suspended
                      THEN Append(procs, Proc("keyDialog", activeTab, <<>>, <<>>))
                      ELSE procs
          /\ uncaught' = IF d.suspended THEN uncaught ELSE FALSE
          /\ UNCHANGED <<controls, areas, outputImage, downloadButton>>
     ELSE LET v == Validation IN
          IF v.stop
          THEN /\ status' = v.status
               /\ uncaught' = FALSE
               /\ UNCHANGED <<controls, areas, outputImage, downloadButton,
                              procs>>
          ELSE /\ status' = v.status
               /\ UNCHANGED <<outputImage, downloadButton>>
               /\ setControlsDisabled(TRUE)
               /\ procs' = Append(procs, RemoteCall(v.prompt))
               /\ UNCHANGED uncaught
  /\ UNCHANGED <<apiKey, hostDialog, activeTab, view, images, decodes,
                 promptGenerate, promptCombine>>

\* performGeneration(), from a click on the primary button (a disabled button
\* takes no click), up to its first await.
performGeneration ==
  /\ ~controls.generateButton
  /\ Len(procs) < MaxProcs
  /\ IF ~apiKey
     THEN LET d == openApiKeyDialog(showStatusError(MsgNoKey)) IN
          /\ status' = d.status
          /\ procs' = IF d.suspended
                      THEN Append(procs, Proc("keyDialog", activeTab, <<>>, <<>>))
                      ELSE procs
          /\ uncaught' = IF d.suspended THEN uncaught ELSE FALSE
          /\ UNCHANGED <<controls, areas, outputImage, downloadButton>>
     ELSE LET v == Validation IN
          IF v.stop
          THEN /\ status' = v.status
               /\ uncaught' = FALSE
               /\ UNCHANGED <<controls, areas, outputImage, downloadButton,
                              procs>>
          ELSE /\ status' = v.status
               /\ outputImage' = [outputImage EXCEPT !.display = "none"]
               /\ downloadButton' = "none"
               /\ setControlsDisabled(TRUE)
               /\ procs' = Append(procs, RemoteCall(v.prompt))
               /\ UNCHANGED uncaught
  /\ UNCHANGED <<apiKey, hostDialog, activeTab, view, images, decodes,
                 promptGenerate, promptCombine>>

\* What generateImage/combineImages do with a response: render, or throw.
Rendered(src) == [threw |-> FALSE, src |-> src, error |-> Null]
Thrown(e) == [threw |-> TRUE, src |-> <<>>, error |-> Some(e)]

\* Mutant of generateImage: the last image is rendered, not the first.
generateImage_Last(response) ==
  LET generated == response.generatedImages IN
  IF generated = Null \/ Len(generated[1]) = 0
  THEN Thrown([isError |-> TRUE, message |-> MsgNoImages])
  ELSE Rendered(DataUrl("image/jpeg", generated[1][Len(generated[1])]))

generateImage(response) ==
  LET generated == response.generatedImages IN
  IF generated = Null \/ Len(generated[1]) = 0
  THEN Thrown([isError |-> TRUE, message |-> MsgNoImages])
  ELSE Rendered(DataUrl("image/jpeg", generated[1][1]))

combineImages(response) ==
  IF Len(response.candidates) = 0
  THEN Thrown(TypeErrorNoCandidate)
  ELSE LET found == FirstInlineData(response.candidates[1]) IN
       IF found = Null
       THEN Thrown([isError |-> TRUE, message |-> MsgNoCombined])
       ELSE Rendered(DataUrl(found[1].mimeType, found[1].data))

\* Mutant of Resume: no finally, the controls are re-enabled on success only.
Resume_NoFinally(i, result) ==
  IF ~result.threw
  THEN /\ outputImage' = [src |-> result.src, display |-> "block"]
       /\ downloadButton' = "block"
       /\ status' = PlainStatus(MsgSuccess)
       /\ setControlsDisabled(FALSE)
       /\ procs' = RemoveAt(procs, i)
       /\ uncaught' = FALSE
  ELSE LET c == Classify(ErrorMessageOf(result.error[1]))
           shown == showStatusError(c.userFriendlyMessage)
           d == IF c.shouldOpenDialog
                THEN openApiKeyDialog(shown)
                ELSE [status |-> shown, suspended |-> FALSE]
       IN  /\ status' = d.status
           /\ UNCHANGED <<outputImage, downloadButton, controls, areas>>
           /\ procs' = IF d.suspended
                       THEN [procs EXCEPT ![i].pc = "errDialog"]
                       ELSE RemoveAt(procs, i)
           /\ uncaught' = IF d.suspended THEN uncaught ELSE FALSE

\* Mutant of Resume: a rendered image does not bring the download control.
Resume_NoDownload(i, result) ==
  IF ~result.threw
  THEN /\ outputImage' = [src |-> result.src, display |-> "block"]
       /\ UNCHANGED downloadButton
       /\ status' = PlainStatus(MsgSuccess)
       /\ setControlsDisabled(FALSE)
       /\ procs' = RemoveAt(procs, i)
       /\ uncaught' = FALSE
  ELSE LET c == Classify(ErrorMessageOf(result.error[1]))
           shown == showStatusError(c.userFriendlyMessage)
           d == IF c.shouldOpenDialog
                THEN openApiKeyDialog(shown)
                ELSE [status |-> shown, suspended |-> FALSE]
       IN  /\ status' = d.status
           /\ UNCHANGED <<outputImage, downloadButton>>
           /\ IF d.suspended
              THEN /\ procs' = [procs EXCEPT ![i].pc = "errDialog"]
                   /\ UNCHANGED <<controls, areas, uncaught>>
              ELSE /\ procs' = RemoveAt(procs, i)
                   /\ setControlsDisabled(FALSE)
                   /\ uncaught' = FALSE

\* The rest of performGeneration once the awaited remote call of procs[i] has
\* settled with `result`: the success line, or the catch block; then finally,
\* unless the catch block is suspended on the key-selection dialog.
Resume(i, result) ==
  IF ~result.threw
  THEN /\ outputImage' = [src |-> result.src, display |-> "block"]
       /\ downloadButton' = "block"
       /\ status' = PlainStatus(MsgSuccess)
       /\ setControlsDisabled(FALSE)
       /\ procs' = RemoveAt(procs, i)
       /\ uncaught' = FALSE
  ELSE LET c == Classify(ErrorMessageOf(result.error[1]))
           shown == showStatusError(c.userFriendlyMessage)
           d == IF c.shouldOpenDialog
                THEN openApiKeyDialog(shown)
                ELSE [status |-> shown, suspended |-> FALSE]
       IN  /\ status' = d.status
           /\ UNCHANGED <<outputImage, downloadButton>>
           /\ IF d.suspended
              THEN /\ procs' = [procs EXCEPT ![i].pc = "errDialog"]
                   /\ UNCHANGED <<controls, areas, uncaught>>
              ELSE /\ procs' = RemoveAt(procs, i)
                   /\ setControlsDisabled(FALSE)
                   /\ uncaught' = FALSE

\* ai.models.generateImages resolves.
generateResolves(i, response) ==
  /\ i \in RemoteCalls
  /\ procs[i].op = "generate"
  /\ Resume(i, generateImage(response))
  /\ UNCHANGED <<apiKey, hostDialog, activeTab, view, images, decodes,
                 promptGenerate, promptCombine>>

\* ai.models.generateContent resolves.
combineResolves(i, response) ==
  /\ i \in RemoteCalls
  /\ procs[i].op = "combine"
  /\ Resume(i, combineImages(response))
  /\ UNCHANGED <<apiKey, hostDialog, activeTab, view, images, decodes,
                 promptGenerate, promptCombine>>

\* Either remote call rejects with e.
remoteRejects(i, e) ==
  /\ i \in RemoteCalls
  /\ Resume(i, Thrown(e))
  /\ UNCHANGED <<apiKey, hostDialog, activeTab, view, images, decodes,
                 promptGenerate, promptCombine>>

\* openSelectKey() settles for procs[i]: the missing-key exit returns (or its
\* rejection leaves performGeneration); the catch block ends (or is left by
\* the rejection) and finally re-enables the controls.
dialogSettles(i, rejected) ==
  /\ i \in DOMAIN procs
  /\ procs[i].pc \in {"keyDialog", "errDialog"}
  /\ procs' = RemoveAt(procs, i)
  /\ IF procs[i].pc = "errDialog"
     THEN setControlsDisabled(FALSE)
     ELSE UNCHANGED <<controls, areas>>
  /\ uncaught' = rejected
  /\ UNCHANGED <<apiKey, hostDialog, activeTab, view, images, decodes,
                 promptGenerate, promptCombine, outputImage, downloadButton,
                 status>>

\* ------------------------------------------------------------------- Next
Tabs == {"generate", "combine"}

Next ==
  \/ \E tab \in Tabs : switchTab(tab)
  \/ addImage
  \/ \E text \in PromptTexts : inputPromptGenerate(text)
  \/ \E text \in PromptTexts : inputPromptCombine(text)
  \/ \E index \in DOMAIN areas, file \in Files : uploadFile(index, file)
  \/ \E d \in decodes : onImageLoaded(d)
  \/ \E d \in decodes : onReadError(d)
  \/ performGeneration
  \/ \E i \in DOMAIN procs : \E response \in GenerateResponses :
       generateResolves(i, response)
  \/ \E i \in DOMAIN procs : \E response \in CombineResponses :
       combineResolves(i, response)
  \/ \E i \in DOMAIN procs : \E e \in Rejections : remoteRejects(i, e)
  \/ \E i \in DOMAIN procs : \E rejected \in BOOLEAN :
       dialogSettles(i, rejected)

Spec == Init /\ [][Next]_vars

\* The remote call of some suspended performGeneration settles.
RemoteSettles ==
  \E i \in DOMAIN procs :
    \/ \E response \in GenerateResponses : generateResolves(i, response)
    \/ \E response \in CombineResponses : combineResolves(i, response)
    \/ \E e \in Rejections : remoteRejects(i, e)

\* Spec with the one assumption that an outstanding remote call settles.
FairSpec == Spec /\ WF_vars(RemoteSettles)

\* ------------------------------------------------------- state predicates
\* Every guarded control is disabled / enabled.
AllDisabled ==
  /\ controls.generateButton /\ controls.promptGenerate
  /\ controls.promptCombine /\ controls.addImage
  /\ \A a \in DOMAIN areas : areas[a].pointerEvents = "none"

AllEnabled ==
  /\ ~controls.generateButton /\ ~controls.promptGenerate
  /\ ~controls.promptCombine /\ ~controls.addImage
  /\ \A a \in DOMAIN areas : areas[a].pointerEvents = "auto"

\* Slots that hold an image.
Populated == {a \in DOMAIN images : images[a] # Null}

\* A text of whitespace only (the empty text included).
IsBlank(text) == \A k \in 1..Len(text) : text[k] = " "

\* The prompt field of the active mode.
ActivePrompt == IF activeTab = "generate" THEN promptGenerate ELSE promptCombine

ValidationStatuses ==
  {ErrorStatus(MsgNeedGeneratePrompt), ErrorStatus(MsgNeedTwoImages),
   ErrorStatus(MsgNeedCombinePrompt)}

\* ------------------------------------------------------------------ claims
\* C1: in every reachable state at most one remote call (generateImage or
\* combineImages) is outstanding.
C1_AtMostOneRemoteCall == Cardinality(RemoteCalls) <= 1

\* A remote call is outstanding while other events went on: the tab was
\* switched after the trigger and a file read is still outstanding.
C1_Witness ==
  /\ Cardinality(RemoteCalls) = 1
  /\ \E i \in RemoteCalls : procs[i].op # activeTab
  /\ decodes # {}

\* C2: while a remote call started by performGeneration has not settled, the
\* primary button, both prompt fields, the add-image button and the pointer
\* interaction of every existing upload area are disabled.
C2_DisabledWhileInFlight == RemoteCalls # {} => AllDisabled

\* A combine call is in flight, upload areas exist, and a file read completed
\* after the trigger (the slots no longer hold what was sent).
C2_Witness ==
  \E i \in RemoteCalls :
    /\ procs[i].op = "combine"
    /\ procs[i].parts # CombineRequestParts(procs[i].prompt,
                                            FilterNonNull(images))
    /\ AllDisabled

\* Some request is suspended on the key-selection dialog its catch block opened.
AwaitsErrorDialog == \E i \in DOMAIN procs : procs[i].pc = "errDialog"

\* C3 as stated: a request that disabled the controls re-enables them once
\* its remote call has settled, on the sole assumption that the call settles.
C3_Original == controls.generateButton ~> AllEnabled

\* C3 as amended: the controls are disabled only while a request awaits its
\* remote call or the key-selection dialog opened by its catch block; once the
\* call has settled they are re-enabled at once, unless that dialog was
\* opened, and then as soon as the dialog settles (resolved or rejected).
C3_ReenabledAfterSettle ==
  /\ [](controls.generateButton =>
          \E i \in DOMAIN procs : procs[i].pc \in {"remote", "errDialog"})
  /\ (controls.generateButton ~> (AllEnabled \/ AwaitsErrorDialog))
  /\ [][(AwaitsErrorDialog /\ ~AwaitsErrorDialog') => AllEnabled']_vars

\* A request failed on the credential, its dialog was rejected, and the
\* controls are enabled again.
C3_Witness ==
  /\ apiKey /\ uncaught /\ procs = <<>>
  /\ status = ErrorStatus(MsgKeyInvalid)
  /\ AllEnabled

\* C4 as stated: from any reachable state, triggering the action with an empty
\* or whitespace-only prompt in the active mode shows a validation message and
\* issues no network call.
C4_Original ==
  [][(performGeneration /\ IsBlank(ActivePrompt)) =>
       (status' \in ValidationStatuses /\ RemoteCalls' = RemoteCalls)]_vars

\* C4 as amended: with an empty or whitespace-only prompt the trigger issues
\* no network call in either mode; with a credential present it stops with a
\* validation message, with the credential absent it stops earlier, with the
\* missing-key (or dialog-unavailable) message.
C4_BlankPromptNoCall ==
  [][(performGeneration /\ IsBlank(ActivePrompt)) =>
       /\ RemoteCalls' = RemoteCalls
       /\ UNCHANGED <<controls, areas, outputImage, downloadButton>>
       /\ IF apiKey
          THEN status' \in ValidationStatuses /\ procs' = procs
          ELSE status' \in {ErrorStatus(MsgNoKey),
                            ErrorStatus(MsgDialogUnavailable)}]_vars

\* Combine mode, two images uploaded, a whitespace-only prompt: the trigger
\* stopped with the prompt message.
C4_Witness ==
  /\ apiKey /\ activeTab = "combine"
  /\ Cardinality(Populated) >= 2
  /\ promptCombine # <<>> /\ IsBlank(promptCombine)
  /\ status = ErrorStatus(MsgNeedCombinePrompt)
  /\ procs = <<>>

\* C5: in combine mode with a credential present and fewer than two populated
\* slots, the trigger issues no network call and shows the image-count
\* message whatever the prompt is: the image-count check comes first.
C5_ImageCountFirst ==
  [][(performGeneration /\ apiKey /\ activeTab = "combine"
        /\ Cardinality(Populated) < 2) =>
       /\ status' = ErrorStatus(MsgNeedTwoImages)
       /\ procs' = procs
       /\ UNCHANGED <<controls, areas, outputImage, downloadButton>>]_vars

\* One image uploaded, an empty combine prompt, and the image-count message.
C5_Witness ==
  /\ apiKey /\ activeTab = "combine"
  /\ Cardinality(Populated) = 1
  /\ IsBlank(promptCombine)
  /\ status = ErrorStatus(MsgNeedTwoImages)

\* C6 as stated: with the credential absent the trigger ends with the
\* missing-key message in the status, no network request and no image
\* rendered, whether or not the host exposes the key-selection dialog.
C6_Original ==
  [][(performGeneration /\ ~apiKey) =>
       /\ status' = ErrorStatus(MsgNoKey)
       /\ RemoteCalls' = {}
       /\ outputImage'.display = "none"]_vars

\* C6 as amended: with the credential absent the trigger makes no network
\* request and renders no image; where the host exposes the dialog, it is
\* opened once and the status shows the missing-key message until the
\* invocation ends; where it does not, the dialog-unavailable message
\* replaces the missing-key message at once.
C6_MissingKey ==
  /\ [][(performGeneration /\ ~apiKey) =>
          /\ RemoteCalls' = {}
          /\ outputImage'.display = "none" /\ downloadButton' = "none"
          /\ UNCHANGED <<controls, areas, outputImage, downloadButton>>
          /\ IF hostDialog
             THEN /\ status' = ErrorStatus(MsgNoKey)
                  /\ procs' = Append(procs, procs'[Len(procs')])
                  /\ procs'[Len(procs')].pc = "keyDialog"
             ELSE /\ status' = ErrorStatus(MsgDialogUnavailable)
                  /\ procs' = procs]_vars
  /\ []((~apiKey /\ hostDialog /\ procs # <<>>) =>
          status = ErrorStatus(MsgNoKey))

\* No credential, no host dialog, a prompt typed, and the trigger left the
\* dialog-unavailable message.
C6_Witness ==
  /\ ~apiKey /\ ~hostDialog
  /\ ~IsBlank(promptGenerate)
  /\ status = ErrorStatus(MsgDialogUnavailable)
  /\ procs = <<>> /\ outputImage.display = "none"

\* C7 as stated: every remote rejection whose message contains "API key not
\* valid" ends with the invalid-credential message in the status and the
\* key-selection dialog invoked, whatever else the message contains and
\* whether or not the host exposes the dialog.
C7_Original ==
  [][\A i \in DOMAIN procs : \A e \in Rejections :
       (e.isError /\ Includes(e.message, PhraseKeyNotValid)
          /\ remoteRejects(i, e)) =>
         /\ status' = ErrorStatus(MsgKeyInvalid)
         /\ hostDialog => procs' = [procs EXCEPT ![i].pc = "errDialog"]]_vars

\* C7 as amended: a rejection whose message contains "API key not valid"
\* always has the key-selection dialog attempted.  Where the host exposes the
\* dialog, the request is suspended on it with the status showing the
\* invalid-credential message, or the model-not-found message when the
\* message also contains "Requested entity was not found."; that status stays
\* until the request ends.  Where the host exposes none, the status ends as
\* the dialog-unavailable message and the request ends at once.
C7_KeyNotValid ==
  /\ [][\A i \in DOMAIN procs : \A e \in Rejections :
          (e.isError /\ Includes(e.message, PhraseKeyNotValid)
             /\ remoteRejects(i, e)) =>
            IF hostDialog
            THEN /\ status' = ErrorStatus(
                      IF Includes(e.message, PhraseNotFound)
                      THEN MsgModelNotFound ELSE MsgKeyInvalid)
                 /\ procs' = [procs EXCEPT ![i].pc = "errDialog"]
                 /\ UNCHANGED <<controls, areas>>
            ELSE /\ status' = ErrorStatus(MsgDialogUnavailable)
                 /\ procs' = RemoveAt(procs, i)
                 /\ AllEnabled']_vars
  /\ [](AwaitsErrorDialog =>
          status \in {ErrorStatus(MsgKeyInvalid),
                      ErrorStatus(MsgModelNotFound)})

\* A request is suspended on the dialog with the invalid-credential message
\* shown and the controls still disabled.
C7_Witness ==
  /\ AwaitsErrorDialog
  /\ status = ErrorStatus(MsgKeyInvalid)
  /\ AllDisabled

\* C8: a generate response with at least one image makes the output image and
\* the download control visible, showing the first image as a JPEG data URL;
\* a response with no image reports the failure and leaves both hidden, also
\* when an earlier request had left them visible.
C8_GenerateOutcome ==
  [][\A i \in DOMAIN procs : \A r \in GenerateResponses :
       generateResolves(i, r) =>
         IF r.generatedImages # Null /\ Len(r.generatedImages[1]) >= 1
         THEN /\ outputImage' =
                   [src |-> <<"data:", "image/jpeg", ";base64", ",">>
                              \o r.generatedImages[1][1],
                    display |-> "block"]
              /\ downloadButton' = "block"
         ELSE /\ status' = ErrorStatus(<<ErrorPrefix>> \o MsgNoImages)
              /\ outputImage'.display = "none"
              /\ downloadButton' = "none"]_vars

\* An earlier request rendered an image; a later generate request came back
\* with no image: the failure is shown and the old image is hidden.
C8_Witness ==
  /\ status = ErrorStatus(<<ErrorPrefix>> \o MsgNoImages)
  /\ outputImage.src # <<>>
  /\ outputImage.display = "none" /\ downloadButton = "none"
  /\ procs = <<>>

\* C9: a combine response whose first candidate has an image-bearing part
\* renders exactly the first such part in part order (its MIME type and
\* bytes), wherever it stands; with no such part the request fails with the
\* no-combined-image error.
C9_FirstImagePart ==
  [][\A i \in DOMAIN procs : \A r \in CombineResponses :
       (Len(r.candidates) >= 1 /\ combineResolves(i, r)) =>
         LET parts == r.candidates[1]
             bearing == {k \in 1..Len(parts) : parts[k].inlineData # Null}
         IN  IF bearing # {}
             THEN LET k == CHOOSE m \in bearing : \A j \in bearing : m <= j
                      found == parts[k].inlineData[1]
                  IN  /\ outputImage' =
                           [src |-> <<"data:", found.mimeType, ";base64", ",">>
                                      \o found.data,
                            display |-> "block"]
                      /\ downloadButton' = "block"
                      /\ status' = PlainStatus(MsgSuccess)
             ELSE /\ status' = ErrorStatus(<<ErrorPrefix>> \o MsgNoCombined)
                  /\ outputImage'.display = "none"
                  /\ downloadButton' = "none"]_vars

\* A combine request rendered the PNG part of its response.
C9_Witness ==
  /\ outputImage = [src |-> <<"data:", "image/png", ";base64", ",", "XXXX">>,
                    display |-> "block"]
  /\ downloadButton = "block"
  /\ status = PlainStatus(MsgSuccess)

\* C10: switchTab changes the active mode and its view (tab styling, panel
\* shown, button label) and nothing else; the view is always the one of the
\* active mode, so switching to the active mode changes nothing at all.
C10_SwitchTabFrame ==
  /\ [][\A tab \in Tabs : switchTab(tab) =>
          /\ activeTab' = tab
          /\ UNCHANGED <<apiKey, hostDialog, images, areas, decodes, controls,
                         promptGenerate, promptCombine, outputImage,
                         downloadButton, status, procs, uncaught>>]_vars
  /\ [](view =
          IF activeTab = "generate"
          THEN [tabGenerate |-> "active", tabCombine |-> "inactive",
                panelGenerate |-> "block", panelCombine |-> "none",
                buttonText |-> "Generar"]
          ELSE [tabGenerate |-> "inactive", tabCombine |-> "active",
                panelGenerate |-> "none", panelCombine |-> "block",
                buttonText |-> "Combinar"])

\* The tab was switched to combine while a generate request was in flight;
\* images, prompt text, earlier output and the disabled controls are there.
C10_Witness ==
  /\ activeTab = "combine"
  /\ \E i \in RemoteCalls : procs[i].op = "generate"
  /\ Populated # {}
  /\ ~IsBlank(promptGenerate)
  /\ outputImage.src # <<>>
  /\ AllDisabled

\* C11 as stated: any two file reads outstanding at the same time write to
\* different slot indices (so the slots' final content cannot depend on the
\* order in which the reads complete).
C11_Original ==
  \A d1 \in decodes : \A d2 \in decodes : d1 # d2 => d1.index # d2.index

\* C12 as stated: no invocation of performGeneration ends with an error
\* nobody catches, a failure of the key-selection dialog included.
C12_Original == ~uncaught

\* C13: the slot sequence never shrinks: its length changes only by an
\* add-image click, by exactly one; a populated slot never becomes empty
\* again, and a slot changes only to the decoded image of a read that was
\* outstanding for that very index.
C13_SlotsOnlyGrow ==
  [][/\ Len(images') >= Len(images)
     /\ Len(images') # Len(images) =>
           /\ addImage
           /\ Len(images') = Len(images) + 1
           /\ images'[Len(images')] = Null
     /\ \A a \in DOMAIN images :
           /\ images[a] # Null => images'[a] # Null
           /\ images'[a] # images[a] =>
                 \E d \in decodes :
                   /\ d.index = a
                   /\ images'[a] = <<[base64 |-> <<d.file.bytes>>,
                                      mimeType |-> d.file.type]>>]_vars

\* Every slot exists and is populated, one of them holding the image a later
\* read wrote over an earlier one: the read of the other file has ended and
\* the slot holds the webp file while another slot holds the png file.
C13_Witness ==
  /\ Len(images) = MaxSlots
  /\ \A a \in DOMAIN images : images[a] # Null
  /\ \E a \in DOMAIN images : images[a][1].mimeType = "image/webp"
  /\ \E a \in DOMAIN images : images[a][1].mimeType = "image/png"
  /\ decodes = {}

\* The status is the outcome of a request that failed after passing
\* validation: an error other than a validation or missing-key message (the
\* dialog-unavailable message is such an outcome where a credential exists).
RequestFailed ==
  /\ status.kind = "error"
  /\ status.message \notin {MsgNeedGeneratePrompt, MsgNeedTwoImages,
                             MsgNeedCombinePrompt, MsgNoKey}
  /\ status.message = MsgDialogUnavailable => apiKey

\* C14: a trigger that passes validation hides the output image and the
\* download control in the step that makes the remote call, and they stay
\* hidden while the request lasts and whenever the status shows a failed
\* request; a trigger stopped by validation or by the missing credential
\* leaves both as they were.
C14_StaleOutputHidden ==
  /\ [][performGeneration =>
          IF Len(procs') > Len(procs) /\ procs'[Len(procs')].pc = "remote"
          THEN /\ outputImage' = [outputImage EXCEPT !.display = "none"]
               /\ downloadButton' = "none"
          ELSE UNCHANGED <<outputImage, downloadButton>>]_vars
  /\ []((\E i \in DOMAIN procs : procs[i].pc \in {"remote", "errDialog"})
           => outputImage.display = "none" /\ downloadButton = "none")
  /\ [](RequestFailed
           => outputImage.display = "none" /\ downloadButton = "none")

\* An earlier request rendered an image, a later one was rejected with an
\* unclassified message: the old image is still the source but is hidden.
C14_Witness ==
  /\ status = ErrorStatus(<<"Error: ", "quota exceeded">>)
  /\ outputImage.src # <<>>
  /\ outputImage.display = "none"
  /\ downloadButton = "none"

\* C15: when a request fails with error message m, the key-selection dialog
\* is opened exactly when m contains "Requested entity was not found.",
\* "API_KEY_INVALID", "API key not valid" or, in any letter case,
\* "permission denied"; otherwise the status is "Error: " followed by m, the
\* request ends and no dialog is opened.  m is the message of the Error the
\* remote call rejected with (the fixed unknown-error text for a value that
\* is no Error) or of the error thrown for a response without an image.
C15_DialogIffClassified ==
  [][\A i \in RemoteCalls :
       LET Classified(m) ==
             \E k \in 1..Len(m) :
               m[k] \in {"Requested entity was not found.", "API_KEY_INVALID",
                         "API key not valid", "permission denied",
                         "Permission Denied"}
           DialogOpened ==
             IF hostDialog
             THEN procs' = [procs EXCEPT ![i].pc = "errDialog"]
             ELSE /\ status' = ErrorStatus(MsgDialogUnavailable)
                  /\ procs' = RemoveAt(procs, i)
           Handled(m) ==
             IF Classified(m)
             THEN DialogOpened
             ELSE /\ status' = ErrorStatus(<<"Error: ">> \o m)
                  /\ procs' = RemoveAt(procs, i)
       IN  /\ \A e \in Rejections :
                remoteRejects(i, e) =>
                  Handled(IF e.isError THEN e.message ELSE MsgUnknown)
           /\ \A r \in GenerateResponses :
                (/\ r.generatedImages = Null \/ Len(r.generatedImages[1]) = 0
                 /\ generateResolves(i, r)) => Handled(MsgNoImages)
           /\ \A r \in CombineResponses :
                (combineResolves(i, r) /\ status'.kind = "error") =>
                  Handled(IF Len(r.candidates) = 0
                          THEN TypeErrorNoCandidate.message
                          ELSE MsgNoCombined)]_vars

\* A request was rejected with an unclassified message on a host that has
\* the dialog: the raw message is shown and the request has ended.
C15_Witness ==
  /\ hostDialog
  /\ status = ErrorStatus(<<"Error: ", "quota exceeded">>)
  /\ procs = <<>>
  /\ AllEnabled

C17_ModeAtTrigger ==
  /\ [][(/\ performGeneration
          /\ Len(procs') > Len(procs)
          /\ procs'[Len(procs')].pc = "remote") =>
          LET made == procs'[Len(procs')]
              text == IF activeTab = "generate"
                      THEN promptGenerate ELSE promptCombine
              inked == {k \in 1..Len(text) : text[k] # " "}
          IN  /\ made.op = activeTab
              /\ inked # {}
              /\ made.prompt =
                    SubSeq(text, CHOOSE k \in inked : \A j \in inked : k <= j,
                                 CHOOSE k \in inked : \A j \in inked : j <= k)
              /\ activeTab = "combine" => Cardinality(Populated) >= 2
              /\ status' = PlainStatus(IF activeTab = "generate"
                                       THEN MsgGenerating ELSE MsgCombining)]_vars
  /\ [][\A tab \in Tabs : switchTab(tab) => procs' = procs]_vars
  /\ [][\A i \in RemoteCalls :
          (procs' = RemoveAt(procs, i) /\ status' = PlainStatus(MsgSuccess)) =>
            IF procs[i].op = "generate"
            THEN \E b \in RemoteBytes :
                   outputImage'.src =
                     <<"data:", "image/jpeg", ";base64", ",", b>>
            ELSE \E part \in ResponseParts :
                   /\ part.inlineData # <<>>
                   /\ outputImage'.src =
                        <<"data:", part.inlineData[1].mimeType, ";base64", ",">>
                          \o part.inlineData[1].data]_vars

\* A combine request is in flight and the generate tab has become the active
\* one meanwhile.
C17_Witness ==
  /\ activeTab = "generate"
  /\ \E i \in RemoteCalls : procs[i].op = "combine"

\* C18: every slot has its upload area; an empty slot's area shows the
\* placeholder and no preview, a populated slot's area shows the preview in
\* place of the placeholder, and the preview is the data URL of the image
\* stored in the slot, whatever the order in which reads completed.
C18_PreviewMatchesSlot ==
  /\ DOMAIN areas = DOMAIN images
  /\ \A a \in DOMAIN images :
       IF images[a] = Null
       THEN /\ areas[a].placeholderDisplay # "none"
            /\ areas[a].previewDisplay # "block"
            /\ areas[a].previewSrc = <<>>
       ELSE /\ areas[a].placeholderDisplay = "none"
            /\ areas[a].previewDisplay = "block"
            /\ areas[a].previewSrc =
                 <<"data:", images[a][1].mimeType, ";base64", ",">>
                   \o images[a][1].base64

\* A slot already holds the webp file, shown in its preview, while a read of
\* the other file for the same slot is still outstanding.
C18_Witness ==
  \E a \in DOMAIN images :
    /\ images[a] # Null
    /\ images[a][1].mimeType = "image/webp"
    /\ areas[a].previewDisplay = "block"
    /\ \E d \in decodes : d.index = a /\ d.file.type = "image/png"

\* C19: the download control is visible exactly when the output image is;
\* both become visible only in a step in which a request's remote call ends
\* with an image rendered.
C19_DownloadIffOutput ==
  /\ [](downloadButton = "block" <=> outputImage.display = "block")
  /\ [][(\/ outputImage'.display = "block" /\ outputImage.display # "block"
         \/ downloadButton' = "block" /\ downloadButton # "block") =>
          \E i \in RemoteCalls :
            /\ procs' = RemoveAt(procs, i)
            /\ status' = PlainStatus(MsgSuccess)
            /\ outputImage'.src # <<>>]_vars

\* An image was rendered, then a trigger was stopped by validation: image
\* and download control are both still visible next to the message.
C19_Witness ==
  /\ outputImage.display = "block"
  /\ downloadButton = "block"
  /\ status \in ValidationStatuses

====
